---- MODULE Spec2Model ----
(***************************************************************************)
(* Verification model of two parts of node-banana:                         *)
(*   - the folder-picker route handler GET (browse-directory route), which *)
(*     runs an OS-native dialog tool and answers with JSON;                *)
(*   - the GroupNode component: inline rename, colour, delete and header   *)
(*     drag over the workflow store.                                       *)
(* Strings are sequences of one-character strings so that trim, endsWith,  *)
(* includes, slice and the drive-root regular expression are computed.     *)
(***************************************************************************)
EXTENDS Integers, Sequences, FiniteSets, TLC

VARIABLES
    platform,     \* process.platform
    pc,           \* where the pending GET request is suspended
    invoked,      \* external processes started by this request, in order
    results,      \* how each started process ended, in order
    stdout,       \* stdout of the process whose output became selectedPath
    tempFile,     \* the win32 temporary script file
    resp,         \* the response of GET, NoResponse while pending
    groupPresent, \* store: groups[groupId] exists
    groupName,    \* store: groups[groupId].name
    groupColor,   \* store: groups[groupId].color
    mounted,      \* the GroupNode component is mounted
    isEditing,    \* useState
    editName,     \* useState
    showColorPicker, \* useState
    isDragging,   \* useState
    dragStart,    \* dragStartRef.current, the anchor
    listeners,    \* window mousemove/mouseup listeners are attached
    pointer,      \* where the mouse pointer is
    lastEvent,    \* the event the last step delivered
    lastCall,     \* the store mutation the last step issued, if any
    downPos,      \* pointer position of the latest drag-starting mousedown
    moved         \* sum of the deltas passed to moveGroupNodes since downPos

pickerVars == <<platform, pc, invoked, results, stdout, tempFile, resp>>

storeVars == <<groupPresent, groupName, groupColor>>

renameVars == <<isEditing, editName, showColorPicker>>

dragVars == <<isDragging, dragStart, listeners, downPos, moved>>

groupVars ==
    <<storeVars, mounted, renameVars, dragVars, pointer, lastEvent, lastCall>>

vars == <<pickerVars, groupVars>>

----------------------------------------------------------------------------
(* Bounds *)

\* longest stdout a dialog tool prints
MaxLen == 4

\* pointer coordinates range over 0..MaxCoord on each axis
MaxCoord == 3

\* longest text of the rename field
MaxNameLen == 2

----------------------------------------------------------------------------
(* Strings *)

\* characters a dialog tool's stdout is built from
Chars == {"/", "\\", ":", "C", "1", "\n"}

\* the characters among Chars that String.prototype.trim removes
Whitespace == {"\n"}

\* the characters among Chars that [A-Za-z] matches
Letters == {"C"}

Stdouts == UNION {[1..n -> Chars] : n \in 0..MaxLen}

RECURSIVE TrimStart(_)
TrimStart(s) ==
    IF s # <<>> /\ Head(s) \in Whitespace THEN TrimStart(Tail(s)) ELSE s

RECURSIVE TrimEnd(_)
TrimEnd(s) ==
    IF s # <<>> /\ s[Len(s)] \in Whitespace
    THEN TrimEnd(SubSeq(s, 1, Len(s) - 1))
    ELSE s

\* String.prototype.trim
Trim(s) == TrimEnd(TrimStart(s))

\* String.prototype.endsWith for a one-character suffix
EndsWith(s, c) == Len(s) >= 1 /\ s[Len(s)] = c

\* String.prototype.includes
Includes(s, needle) ==
    \E i \in 0..(Len(s) - Len(needle)) :
        SubSeq(s, i + 1, i + Len(needle)) = needle

----------------------------------------------------------------------------
(* Literals of the route handler *)

UserCanceledLiteral ==
    <<"U","s","e","r"," ","c","a","n","c","e","l","e","d">>

Code128Literal ==
    <<"-","1","2","8">>

NoToolMessage ==
    <<"N","o"," ","s","u","p","p","o","r","t","e","d"," ","d","i","a","l","o","g"," ","t","o","o","l"," ","f","o","u","n","d","."," ","P","l","e","a","s","e"," ","i","n","s","t","a","l","l"," ","z","e","n","i","t","y"," ","o","r"," ","k","d","i","a","l","o","g",".">>

UnsupportedPrefix ==
    <<"U","n","s","u","p","p","o","r","t","e","d"," ","p","l","a","t","f","o","r","m",":"," ">>

\* `Unsupported platform: ${platform}`
UnsupportedMessage(p) == UnsupportedPrefix \o <<p>>

----------------------------------------------------------------------------
(* What the external processes can do *)

Platforms == {"darwin", "win32", "linux", "freebsd"}

Tools == {"osascript", "powershell", "zenity", "kdialog"}

CommandFailed ==
    <<"C","o","m","m","a","n","d"," ","f","a","i","l","e","d",":"," ">>

StderrMacCancel ==
    <<"e","x","e","c","u","t","i","o","n"," ","e","r","r","o","r",":"," ","U","s","e","r"," ","c","a","n","c","e","l","e","d","."," ","(","-","1","2","8",")">>

StderrOnlyLiteral ==
    <<"U","s","e","r"," ","c","a","n","c","e","l","e","d",".">>

StderrOnlyCode ==
    <<"e","r","r","o","r"," ","(","-","1","2","8",")">>

StderrBritish ==
    <<"U","s","e","r"," ","c","a","n","c","e","l","l","e","d">>

StderrNoDash ==
    <<"e","x","i","t"," ","c","o","d","e"," ","1","2","8">>

StderrNotFound ==
    <<"n","o","t"," ","f","o","u","n","d">>

WriteDenied ==
    <<"E","A","C","C","E","S",":"," ","p","e","r","m","i","s","s","i","o","n"," ","d","e","n","i","e","d">>

WriteDenied128 ==
    <<"E","N","O","E","N","T",":"," ","n","o"," ","s","u","c","h"," ","f","i","l","e",","," ","o","p","e","n"," ","'","t","m","p","-","1","2","8","'">>

\* what a failing process can have written to stderr
Stderrs ==
    {<<>>, StderrMacCancel, StderrOnlyLiteral, StderrOnlyCode, StderrBritish,
     StderrNoDash, StderrNotFound}

\* message of the Error execAsync rejects with
ExecErrorMessage(stderr) == CommandFailed \o stderr

\* messages of the Error writeFile rejects with
WriteErrors == {WriteDenied, WriteDenied128}

\* stderr of a tool whose dialog the user dismissed, for the tools that exit
\* non-zero then (the PowerShell script exits 0 and prints nothing instead)
CancelStderr(tool) ==
    IF tool = "osascript" THEN StderrMacCancel ELSE <<>>

Outcome(ok, out, msg, cancel) ==
    [ok |-> ok, stdout |-> out, message |-> msg, userCancelled |-> cancel]

\* every way an invocation of tool can end
ToolOutcomes(tool) ==
    {Outcome(TRUE, s, <<>>, FALSE) : s \in Stdouts}
    \cup {Outcome(FALSE, <<>>, ExecErrorMessage(e), FALSE) : e \in Stderrs}
    \cup (IF tool = "powershell"
          THEN {Outcome(TRUE, <<>>, <<>>, TRUE)}
          ELSE {Outcome(FALSE, <<>>, ExecErrorMessage(CancelStderr(tool)), TRUE)})

----------------------------------------------------------------------------
(* Responses *)

\* JSON null (no path is a one-element sequence of a four-character string)
Null == <<"null">>

NoResponse == [status |-> 0, body |-> [pending |-> TRUE]]

RespCancelled ==
    [status |-> 200,
     body |-> [success |-> TRUE, cancelled |-> TRUE, path |-> Null]]

RespSelected(p) ==
    [status |-> 200,
     body |-> [success |-> TRUE, cancelled |-> FALSE, path |-> p]]

RespError(msg) ==
    [status |-> 500, body |-> [success |-> FALSE, error |-> msg]]

----------------------------------------------------------------------------
(* Pure parts of GET *)

\* /^[A-Za-z]:\\$/.test(p)
IsDriveRoot(p) ==
    Len(p) = 3 /\ p[1] \in Letters /\ p[2] = ":" /\ p[3] = "\\"

StripNoRootGuard(p, plat) ==
    IF EndsWith(p, "/") \/ EndsWith(p, "\\")
    THEN SubSeq(p, 1, Len(p) - 1)
    ELSE p

StripNoDriveGuard(p, plat) ==
    IF Len(p) > 1 /\ (EndsWith(p, "/") \/ EndsWith(p, "\\"))
    THEN SubSeq(p, 1, Len(p) - 1)
    ELSE p

\* removal of one trailing slash or backslash
StripTrailing(p, plat) ==
    IF Len(p) > 1 /\ (EndsWith(p, "/") \/ EndsWith(p, "\\"))
    THEN IF ~(plat = "win32" /\ IsDriveRoot(p))
         THEN SubSeq(p, 1, Len(p) - 1)
         ELSE p
    ELSE p

\* the response once selectedPath is set
Respond(selectedPath, plat) ==
    IF selectedPath = <<>>
    THEN RespCancelled
    ELSE RespSelected(StripTrailing(selectedPath, plat))

IsCancelErrorLiteralOnly(msg) == Includes(msg, UserCanceledLiteral)

\* the test of the outer catch
IsCancelError(msg) ==
    Includes(msg, UserCanceledLiteral) \/ Includes(msg, Code128Literal)

\* the outer catch
CatchResponse(msg) ==
    IF IsCancelError(msg) THEN RespCancelled ELSE RespError(msg)

FallbackRetry(tool) == IF tool = "zenity" THEN "zenity" ELSE "none"

\* the tool the linux branch tries once tool has failed
Fallback(tool) == IF tool = "zenity" THEN "kdialog" ELSE "none"

Result(tool, o) ==
    [tool |-> tool, ok |-> o.ok, message |-> o.message,
     userCancelled |-> o.userCancelled]

----------------------------------------------------------------------------
(* GET, one action per stretch between awaits *)

InitPicker(platforms) ==
    /\ platform \in platforms
    /\ pc = "idle"
    /\ invoked = <<>>
    /\ results = <<>>
    /\ stdout = <<>>
    /\ tempFile = "none"
    /\ resp = NoResponse

\* a request arrives: dispatch on the platform up to the first await
GetStart ==
    /\ pc = "idle"
    /\ IF platform = "darwin"
       THEN /\ invoked' = Append(invoked, "osascript")
            /\ pc' = "osascript"
            /\ resp' = resp
       ELSE IF platform = "win32"
       THEN /\ invoked' = invoked
            /\ pc' = "writeFile"
            /\ resp' = resp
       ELSE IF platform = "linux"
       THEN /\ invoked' = Append(invoked, "zenity")
            /\ pc' = "zenity"
            /\ resp' = resp
       ELSE /\ invoked' = invoked
            /\ pc' = "done"
            /\ resp' = RespError(UnsupportedMessage(platform))
    /\ UNCHANGED <<platform, results, stdout, tempFile, groupVars>>

\* osascript ends
OsascriptReturns ==
    /\ pc = "osascript"
    /\ \E o \in ToolOutcomes("osascript") :
        /\ results' = Append(results, Result("osascript", o))
        /\ stdout' = o.stdout
        /\ resp' = IF o.ok THEN Respond(Trim(o.stdout), platform)
                          ELSE CatchResponse(o.message)
    /\ pc' = "done"
    /\ UNCHANGED <<platform, invoked, tempFile, groupVars>>

\* writeFile of the temporary script ends
WriteFileReturns ==
    /\ pc = "writeFile"
    /\ \/ /\ tempFile' = "written"
          /\ invoked' = Append(invoked, "powershell")
          /\ pc' = "powershell"
          /\ resp' = resp
       \/ \E m \in WriteErrors, left \in BOOLEAN :
          /\ tempFile' = IF left THEN "left" ELSE "none"
          /\ invoked' = invoked
          /\ pc' = "done"
          /\ resp' = CatchResponse(m)
    /\ UNCHANGED <<platform, results, stdout, groupVars>>

\* powershell ends (or is killed by the timeout); the finally block unlinks
PowershellReturns ==
    /\ pc = "powershell"
    /\ \E o \in ToolOutcomes("powershell"), unlinked \in BOOLEAN :
        /\ results' = Append(results, Result("powershell", o))
        /\ stdout' = o.stdout
        /\ tempFile' = IF unlinked THEN "removed" ELSE "left"
        /\ resp' = IF o.ok THEN Respond(Trim(o.stdout), platform)
                          ELSE CatchResponse(o.message)
    /\ pc' = "done"
    /\ UNCHANGED <<platform, invoked, groupVars>>

\* zenity or kdialog ends
LinuxToolReturns(tool) ==
    /\ pc = tool
    /\ \E o \in ToolOutcomes(tool) :
        /\ results' = Append(results, Result(tool, o))
        /\ stdout' = o.stdout
        /\ IF o.ok
           THEN /\ resp' = Respond(Trim(o.stdout), platform)
                /\ pc' = "done"
                /\ invoked' = invoked
           ELSE IF Fallback(tool) # "none"
           THEN /\ resp' = resp
                /\ pc' = Fallback(tool)
                /\ invoked' = Append(invoked, Fallback(tool))
           ELSE /\ resp' = RespError(NoToolMessage)
                /\ pc' = "done"
                /\ invoked' = invoked
    /\ UNCHANGED <<platform, tempFile, groupVars>>

ZenityReturns == LinuxToolReturns("zenity")

KdialogReturns == LinuxToolReturns("kdialog")

\* the response is sent; the next request starts from scratch
NewRequest ==
    /\ pc = "done"
    /\ pc' = "idle"
    /\ invoked' = <<>>
    /\ results' = <<>>
    /\ stdout' = <<>>
    /\ tempFile' = "none"
    /\ resp' = NoResponse
    /\ UNCHANGED <<platform, groupVars>>

NextPicker ==
    \/ GetStart
    \/ OsascriptReturns
    \/ WriteFileReturns
    \/ PowershellReturns
    \/ ZenityReturns
    \/ KdialogReturns
    \/ NewRequest


----------------------------------------------------------------------------
(* GroupNode: values *)

NameChars == {" ", "a", "b"}

\* the characters among NameChars that String.prototype.trim removes
NameWhitespace == {" "}

\* what the rename field can hold
Names == UNION {[1..n -> NameChars] : n \in 0..MaxNameLen}

RECURSIVE TrimNameStart(_)
TrimNameStart(s) ==
    IF s # <<>> /\ Head(s) \in NameWhitespace
    THEN TrimNameStart(Tail(s))
    ELSE s

RECURSIVE TrimNameEnd(_)
TrimNameEnd(s) ==
    IF s # <<>> /\ s[Len(s)] \in NameWhitespace
    THEN TrimNameEnd(SubSeq(s, 1, Len(s) - 1))
    ELSE s

\* editName.trim()
TrimName(s) == TrimNameEnd(TrimNameStart(s))

\* names the store holds: set by createGroup or by a rename of this component
StoreNames == {n \in Names : n # <<>> /\ TrimName(n) = n}

\* COLOR_OPTIONS, two of the six
Colors == {"neutral", "blue"}

Coords == 0..MaxCoord

Positions == Coords \X Coords

\* dragStartRef.current = null
NoAnchor == <<>>

Abs(n) == IF n < 0 THEN -n ELSE n

\* the threshold of handleMouseMove
DragThreshold == 2

NoCall == [op |-> "none"]

MoveCall(dx, dy) == [op |-> "moveGroupNodes", x |-> dx, y |-> dy]

RenameCall(n) == [op |-> "updateGroup", name |-> n]

ColorCall(c) == [op |-> "updateGroup", color |-> c]

DeleteCall == [op |-> "deleteGroup"]

Event(type, target) == [type |-> type, target |-> target]

\* where a mousedown inside the header can land
HeaderTargets ==
    {"background", "colorButton", "deleteButton"}
    \cup (IF isEditing THEN {"input"} ELSE {"span"})
    \cup (IF showColorPicker THEN {"swatch", "panel"} ELSE {})

\* targets inside the colorPickerRef element
InsidePicker == {"colorButton", "swatch", "panel"}

----------------------------------------------------------------------------
(* GroupNode: pure parts *)

StartsDragAnywhere(target) == TRUE

\* handleHeaderMouseDown: not on a button, not on an input
StartsDrag(target) ==
    ~(target \in {"colorButton", "swatch", "deleteButton"} \/ target = "input")

SignificantAtThreshold(dx, dy) ==
    Abs(dx) >= DragThreshold \/ Abs(dy) >= DragThreshold

\* handleMouseMove: is the movement committed
Significant(dx, dy) == Abs(dx) > DragThreshold \/ Abs(dy) > DragThreshold

KeepAnchor(anchor, e) == anchor

\* handleMouseMove: the anchor after a committed move to e
NextAnchor(anchor, e) == e

\* handleNameSubmit: is updateGroup called
SubmitsRename(edit, present, name) ==
    TrimName(edit) # <<>> /\ ~(present /\ edit = name)

\* group?.name || ""
NameOrEmpty(present, name) == IF present THEN name ELSE <<>>

\* the effect that copies the group's name into editName; it runs when
\* group?.name or isEditing changed in this step
SyncEditName(present, name, editing, edit) ==
    IF /\ (<<present, NameOrEmpty(present, name), editing>>
              # <<groupPresent, NameOrEmpty(groupPresent, groupName), isEditing>>)
       /\ present /\ name # <<>> /\ ~editing
    THEN name
    ELSE edit

----------------------------------------------------------------------------
(* GroupNode: the store and the mounting of the component *)

InitGroup(names, positions) ==
    /\ groupPresent = TRUE
    /\ groupName \in names
    /\ groupColor = "neutral"
    /\ mounted = TRUE
    /\ isEditing = FALSE
    /\ editName = groupName
    /\ showColorPicker = FALSE
    /\ isDragging = FALSE
    /\ dragStart = NoAnchor
    /\ listeners = FALSE
    /\ pointer \in positions
    /\ lastEvent = Event("none", "none")
    /\ lastCall = NoCall
    /\ downPos = NoAnchor
    /\ moved = <<0, 0>>

\* the group leaves the store by some other hand (another control, undo)
StoreRemovesGroup ==
    /\ groupPresent
    /\ groupPresent' = FALSE
    /\ lastEvent' = Event("store", "remove")
    /\ lastCall' = NoCall
    /\ UNCHANGED <<groupName, groupColor, mounted, renameVars, dragVars,
                   pointer, pickerVars>>

\* the group is back in the store (undo of the removal, reload)
StoreRestoresGroup ==
    /\ ~groupPresent
    /\ groupPresent' = TRUE
    /\ editName' = SyncEditName(TRUE, groupName, isEditing, editName)
    /\ lastEvent' = Event("store", "restore")
    /\ lastCall' = NoCall
    /\ UNCHANGED <<groupName, groupColor, mounted, isEditing, showColorPicker,
                   dragVars, pointer, pickerVars>>

\* the node is taken off the canvas: effect cleanups run, state is dropped
Unmount ==
    /\ mounted
    /\ mounted' = FALSE
    /\ isEditing' = FALSE
    /\ editName' = <<>>
    /\ showColorPicker' = FALSE
    /\ isDragging' = FALSE
    /\ dragStart' = NoAnchor
    /\ listeners' = FALSE
    /\ lastEvent' = Event("react", "unmount")
    /\ lastCall' = NoCall
    /\ UNCHANGED <<storeVars, downPos, moved, pointer, pickerVars>>

\* the node is put on the canvas: useState and useRef initial values
Mount ==
    /\ ~mounted
    /\ mounted' = TRUE
    /\ isEditing' = FALSE
    /\ editName' = NameOrEmpty(groupPresent, groupName)
    /\ showColorPicker' = FALSE
    /\ isDragging' = FALSE
    /\ dragStart' = NoAnchor
    /\ listeners' = FALSE
    /\ lastEvent' = Event("react", "mount")
    /\ lastCall' = NoCall
    /\ UNCHANGED <<storeVars, downPos, moved, pointer, pickerVars>>

----------------------------------------------------------------------------
(* GroupNode: header drag *)

\* mousedown inside the header; the header exists only while the group does.
\* handleClickOutside hears the same mousedown on the document; after
\* e.stopPropagation() it does so only where React's root is the document
\* itself, hence the choice of reaches
HeaderMouseDown ==
    /\ mounted
    /\ groupPresent
    /\ \E target \in HeaderTargets, reaches \in BOOLEAN :
        /\ lastEvent' = Event("mousedown", target)
        /\ showColorPicker' =
              IF /\ showColorPicker
                 /\ target \notin InsidePicker
                 /\ (StartsDrag(target) => reaches)
              THEN FALSE
              ELSE showColorPicker
        /\ IF StartsDrag(target)
           THEN /\ isDragging' = TRUE
                /\ dragStart' = pointer
                /\ listeners' = TRUE
                /\ downPos' = pointer
                /\ moved' = <<0, 0>>
           ELSE UNCHANGED dragVars
    /\ lastCall' = NoCall
    /\ UNCHANGED <<storeVars, mounted, isEditing, editName, pointer,
                   pickerVars>>

\* the pointer moves to e; handleMouseMove runs if it is attached
MouseMove ==
    \E e \in Positions :
        /\ pointer' = e
        /\ lastEvent' = Event("mousemove", "window")
        /\ IF listeners /\ dragStart # NoAnchor
           THEN LET deltaX == e[1] - dragStart[1]
                    deltaY == e[2] - dragStart[2]
                IN  IF Significant(deltaX, deltaY)
                    THEN /\ lastCall' = MoveCall(deltaX, deltaY)
                         /\ dragStart' = NextAnchor(dragStart, e)
                         /\ moved' = <<moved[1] + deltaX, moved[2] + deltaY>>
                    ELSE /\ lastCall' = NoCall
                         /\ UNCHANGED <<dragStart, moved>>
           ELSE /\ lastCall' = NoCall
                /\ UNCHANGED <<dragStart, moved>>
        /\ UNCHANGED <<storeVars, mounted, renameVars, isDragging, listeners,
                       downPos, pickerVars>>

\* a mouse button is released; handleMouseUp runs if it is attached
MouseUp ==
    /\ lastEvent' = Event("mouseup", "window")
    /\ lastCall' = NoCall
    /\ IF listeners
       THEN /\ isDragging' = FALSE
            /\ dragStart' = NoAnchor
            /\ listeners' = FALSE
       ELSE UNCHANGED <<isDragging, dragStart, listeners>>
    /\ UNCHANGED <<storeVars, mounted, renameVars, downPos, moved, pointer,
                   pickerVars>>

----------------------------------------------------------------------------
(* GroupNode: rename, colour, delete *)

\* click on the name span
ClickName ==
    /\ mounted /\ groupPresent /\ ~isEditing
    /\ isEditing' = TRUE
    /\ editName' = SyncEditName(groupPresent, groupName, TRUE, editName)
    /\ lastEvent' = Event("click", "span")
    /\ lastCall' = NoCall
    /\ UNCHANGED <<storeVars, mounted, showColorPicker, dragVars, pointer,
                   pickerVars>>

\* onChange of the input
ChangeName ==
    /\ mounted /\ groupPresent /\ isEditing
    /\ \E v \in Names : editName' = v
    /\ lastEvent' = Event("change", "input")
    /\ lastCall' = NoCall
    /\ UNCHANGED <<storeVars, mounted, isEditing, showColorPicker, dragVars,
                   pointer, pickerVars>>

\* handleNameSubmit, with updateGroup setting the store's name
HandleNameSubmit(type) ==
    /\ mounted /\ groupPresent /\ isEditing
    /\ lastEvent' = Event(type, "input")
    /\ isEditing' = FALSE
    /\ IF SubmitsRename(editName, groupPresent, groupName)
       THEN /\ lastCall' = RenameCall(TrimName(editName))
            /\ groupName' = TrimName(editName)
            /\ editName' =
                  SyncEditName(groupPresent, TrimName(editName), FALSE, editName)
       ELSE /\ lastCall' = NoCall
            /\ groupName' = groupName
            /\ editName' =
                  SyncEditName(groupPresent, groupName, FALSE,
                               NameOrEmpty(groupPresent, groupName))
    /\ UNCHANGED <<groupPresent, groupColor, mounted, showColorPicker,
                   dragVars, pointer, pickerVars>>

\* handleKeyDown, key Enter
KeyEnter == HandleNameSubmit("Enter")

\* onBlur of the input
Blur == HandleNameSubmit("blur")

\* handleKeyDown, key Escape
KeyEscape ==
    /\ mounted /\ groupPresent /\ isEditing
    /\ lastEvent' = Event("Escape", "input")
    /\ isEditing' = FALSE
    /\ editName' =
          SyncEditName(groupPresent, groupName, FALSE,
                       NameOrEmpty(groupPresent, groupName))
    /\ lastCall' = NoCall
    /\ UNCHANGED <<storeVars, mounted, showColorPicker, dragVars, pointer,
                   pickerVars>>

\* click on the colour button
ToggleColorPicker ==
    /\ mounted /\ groupPresent
    /\ showColorPicker' = ~showColorPicker
    /\ lastEvent' = Event("click", "colorButton")
    /\ lastCall' = NoCall
    /\ UNCHANGED <<storeVars, mounted, isEditing, editName, dragVars, pointer,
                   pickerVars>>

\* handleColorChange, with updateGroup setting the store's colour
PickColor ==
    /\ mounted /\ groupPresent /\ showColorPicker
    /\ \E c \in Colors :
        /\ lastCall' = ColorCall(c)
        /\ groupColor' = c
    /\ showColorPicker' = FALSE
    /\ lastEvent' = Event("click", "swatch")
    /\ UNCHANGED <<groupPresent, groupName, mounted, isEditing, editName,
                   dragVars, pointer, pickerVars>>

\* handleClickOutside: mousedown on the document outside the picker element
DocumentMouseDown ==
    /\ mounted
    /\ showColorPicker' = FALSE
    /\ lastEvent' = Event("mousedown", "document")
    /\ lastCall' = NoCall
    /\ UNCHANGED <<storeVars, mounted, isEditing, editName, dragVars, pointer,
                   pickerVars>>

\* handleDelete, with deleteGroup removing the group from the store
HandleDelete ==
    /\ mounted /\ groupPresent
    /\ lastCall' = DeleteCall
    /\ groupPresent' = FALSE
    /\ lastEvent' = Event("click", "deleteButton")
    /\ UNCHANGED <<groupName, groupColor, mounted, renameVars, dragVars,
                   pointer, pickerVars>>

----------------------------------------------------------------------------
(* Specifications *)

NextDrag ==
    \/ HeaderMouseDown
    \/ MouseMove
    \/ MouseUp
    \/ ClickName
    \/ KeyEscape
    \/ ToggleColorPicker
    \/ StoreRemovesGroup
    \/ StoreRestoresGroup
    \/ Unmount
    \/ Mount

NextRename ==
    \/ ClickName
    \/ ChangeName
    \/ KeyEnter
    \/ Blur
    \/ KeyEscape
    \/ ToggleColorPicker
    \/ PickColor
    \/ DocumentMouseDown
    \/ HandleDelete
    \/ StoreRemovesGroup
    \/ StoreRestoresGroup
    \/ Unmount
    \/ Mount

\* a request may arrive on any platform; the component is at rest
InitForPicker ==
    InitPicker(Platforms) /\ InitGroup({<<"a">>}, {<<0, 0>>})

\* the route handler alone
SpecPicker == InitForPicker /\ [][NextPicker]_vars

\* no request pending; the pointer is anywhere
InitForDrag ==
    InitPicker({"linux"}) /\ InitGroup({<<"a">>}, Positions)

\* the header drag of the component, with the name shown or under edit and
\* the colour picker closed or open
SpecDrag == InitForDrag /\ [][NextDrag]_vars

\* no request pending; the group has any name the store can hold
InitForRename ==
    InitPicker({"linux"}) /\ InitGroup(StoreNames, {<<0, 0>>})

\* rename, colour and delete of the component
SpecRename == InitForRename /\ [][NextRename]_vars

----------------------------------------------------------------------------
(* Folder picker: properties *)

Done == pc = "done"

Failed(i) == i \in DOMAIN results /\ ~results[i].ok

\* the message carries one of the two cancellation marks
HasCancelMark(msg) ==
    \E i \in 1..Len(msg) :
        \/ i + 12 <= Len(msg) /\ SubSeq(msg, i, i + 12) = UserCanceledLiteral
        \/ i + 3 <= Len(msg) /\ SubSeq(msg, i, i + 3) = Code128Literal

IsSelected(r) ==
    /\ r.status = 200
    /\ DOMAIN r.body = {"success", "cancelled", "path"}
    /\ r.body.success = TRUE
    /\ r.body.cancelled = FALSE
    /\ r.body.path # Null

\* C1 (as claimed): whenever the user dismissed the dialog of osascript, of
\* the PowerShell script or of zenity, the response is 200 with
\* {success: true, cancelled: true, path: null}.
C1_CancelAnswered200 ==
    (Done /\ \E i \in DOMAIN results :
                /\ results[i].userCancelled
                /\ results[i].tool \in {"osascript", "powershell", "zenity"})
        => resp = RespCancelled

\* C2 (as claimed): on every platform a failed dialog process is answered
\* as a cancellation exactly when its message carries "User canceled" or
\* "-128", and with 500 and that message otherwise.
C2_FailureClassifiedEverywhere ==
    Done =>
        \A i \in DOMAIN results :
            Failed(i) =>
                resp = IF HasCancelMark(results[i].message)
                       THEN RespCancelled
                       ELSE RespError(results[i].message)

\* C2 (amended): on darwin and win32 a failed dialog process is answered as
\* a cancellation exactly when its message carries "User canceled" or
\* "-128", and with 500 and that message otherwise; on linux the message is
\* not examined: after a failed zenity the response is whatever the kdialog
\* invocation gives, and a failed kdialog is answered with 500 and the fixed
\* "No supported dialog tool found" message.
C2_FailureClassified ==
    Done =>
        /\ platform \in {"darwin", "win32"} =>
              \A i \in DOMAIN results :
                  Failed(i) =>
                      resp = IF HasCancelMark(results[i].message)
                             THEN RespCancelled
                             ELSE RespError(results[i].message)
        /\ platform = "linux" /\ Failed(1) =>
              /\ Len(results) = 2
              /\ results[2].tool = "kdialog"
              /\ results[2].ok => resp = Respond(Trim(stdout), platform)
              /\ ~results[2].ok => resp = RespError(NoToolMessage)

\* C2 witness: osascript failed with a message that carries only the code,
\* and the response is the cancellation.
C2_Witness ==
    /\ Done
    /\ platform = "darwin"
    /\ Failed(1)
    /\ results[1].message = ExecErrorMessage(StderrOnlyCode)
    /\ resp = RespCancelled

\* C3: the returned path is the trimmed output with exactly one trailing
\* separator removed when it is longer than one character and ends in a
\* separator, except that "/" (any platform) and a drive root (win32) are
\* returned unchanged; a path not ending in a separator is unchanged.
C3_TrailingSeparator ==
    (Done /\ results # <<>> /\ results[Len(results)].ok
          /\ Trim(stdout) # <<>>) =>
        LET p == Trim(stdout)
            last == p[Len(p)]
            driveRoot == /\ platform = "win32"
                         /\ Len(p) = 3
                         /\ p[1] = "C" /\ p[2] = ":" /\ p[3] = "\\"
        IN  /\ IsSelected(resp)
            /\ p = <<"/">> => resp.body.path = p
            /\ driveRoot => resp.body.path = p
            /\ last \notin {"/", "\\"} => resp.body.path = p
            /\ Len(p) = 1 => resp.body.path = p
            /\ (Len(p) > 1 /\ last \in {"/", "\\"} /\ ~driveRoot) =>
                   resp.body.path \o <<last>> = p

\* C3 witness: on win32 the dialog printed the drive root and it came back
\* whole.
C3_Witness ==
    /\ Done
    /\ platform = "win32"
    /\ stdout = <<"C", ":", "\\", "\n">>
    /\ resp = RespSelected(<<"C", ":", "\\">>)

IsOutcome1(r) == r = RespCancelled

IsOutcome2(r) ==
    /\ IsSelected(r)
    /\ Len(r.body.path) >= 1
    /\ \A i \in 1..Len(r.body.path) : r.body.path[i] \in Chars

IsOutcome3(r) ==
    /\ r.status = 500
    /\ DOMAIN r.body = {"success", "error"}
    /\ r.body.success = FALSE
    /\ Len(r.body.error) >= 1

\* C4: every response is the cancellation, a selection with a non-empty
\* path, or a 500 with a non-empty error; an unsupported platform gives the
\* 500 and starts no process; on linux two failed tools give the 500.
C4_ThreeOutcomes ==
    /\ ~Done => resp = NoResponse
    /\ Done =>
        /\ IsOutcome1(resp) \/ IsOutcome2(resp) \/ IsOutcome3(resp)
        /\ platform \notin {"darwin", "win32", "linux"} =>
              IsOutcome3(resp) /\ invoked = <<>> /\ results = <<>>
        /\ (platform = "linux" /\ Failed(1) /\ Failed(2)) => IsOutcome3(resp)

\* C4 witness: neither zenity nor kdialog is installed and the response is
\* the tool-missing error.
C4_Witness ==
    /\ Done
    /\ platform = "linux"
    /\ Len(results) = 2
    /\ results[1].message = ExecErrorMessage(StderrNotFound)
    /\ results[2].message = ExecErrorMessage(StderrNotFound)
    /\ resp = RespError(NoToolMessage)

\* C8: on linux kdialog is started only after zenity failed, the
\* tool-missing error is sent only after zenity and then kdialog failed, a
\* successful zenity is never followed by kdialog, and a request starts at
\* most one process on darwin and win32 and at most two on linux, none
\* twice.
C8_FallbackOrder ==
    /\ Len(results) <= Len(invoked)
    /\ \A i \in DOMAIN results : results[i].tool = invoked[i]
    /\ \A i, j \in DOMAIN invoked : invoked[i] = invoked[j] => i = j
    /\ platform = "darwin" => invoked \in {<<>>, <<"osascript">>}
    /\ platform = "win32" => invoked \in {<<>>, <<"powershell">>}
    /\ platform = "linux" =>
          invoked \in {<<>>, <<"zenity">>, <<"zenity", "kdialog">>}
    /\ Len(invoked) = 2 => Failed(1)
    /\ (results # <<>> /\ results[1].ok) => Len(invoked) = 1
    /\ resp = RespError(NoToolMessage) => Failed(1) /\ Failed(2)

\* C8 witness: zenity failed, kdialog was started next and gave the path.
C8_Witness ==
    /\ Done
    /\ invoked = <<"zenity", "kdialog">>
    /\ Failed(1)
    /\ results[2].ok
    /\ IsSelected(resp)

----------------------------------------------------------------------------
(* GroupNode: properties *)

\* targets for which closest("button") or closest("input") finds an element
ButtonOrInput == {"colorButton", "swatch", "deleteButton", "input"}

\* C5: while a drag lasts, a mousemove calls moveGroupNodes (with the
\* displacement from the anchor, which then becomes the pointer position)
\* exactly when that displacement is more than 2 pixels on some axis;
\* otherwise nothing is committed and the anchor stays; the anchor is only
\* ever set by a mousedown or by a committed move, to the pointer position.
C5_DragThreshold ==
    [][ /\ (lastEvent'.type = "mousemove" /\ isDragging) =>
              LET dx == pointer'[1] - dragStart[1]
                  dy == pointer'[2] - dragStart[2]
              IN  IF dx > 2 \/ dx < -2 \/ dy > 2 \/ dy < -2
                  THEN /\ lastCall' = MoveCall(dx, dy)
                       /\ dragStart' = pointer'
                  ELSE /\ lastCall' = NoCall
                       /\ dragStart' = dragStart
                       /\ moved' = moved
        /\ lastCall'.op = "moveGroupNodes" =>
              lastEvent'.type = "mousemove" /\ isDragging
        /\ (dragStart' # dragStart /\ dragStart' # NoAnchor) =>
              /\ dragStart' = pointer'
              /\ \/ lastEvent'.type = "mousedown"
                 \/ lastCall'.op = "moveGroupNodes"
      ]_vars

\* C5 witness: after a committed move, a small mousemove left the pointer
\* off the anchor and committed nothing.
C5_Witness ==
    /\ lastEvent.type = "mousemove"
    /\ isDragging
    /\ lastCall = NoCall
    /\ moved # <<0, 0>>
    /\ pointer # dragStart

\* C7 (as claimed): a step that starts while the store has no group under
\* groupId issues no updateGroup, deleteGroup or moveGroupNodes call.
C7_SilentWhileMissing ==
    [][ ~groupPresent => lastCall' = NoCall ]_vars

\* C6 (as claimed): a submit (Enter or blur) of a value that is empty,
\* whitespace-only or equal to the current name, also once trimmed, calls
\* nothing, leaves the store's name, resets the field to the name and ends
\* editing; updateGroup is called only with a non-empty trimmed name that
\* differs from the current name.
C6_NoOpRename ==
    [][ (lastEvent'.type \in {"Enter", "blur"} /\ isEditing) =>
            /\ (TrimName(editName) = <<>> \/ TrimName(editName) = groupName
                   \/ editName = groupName) =>
                  /\ lastCall' = NoCall
                  /\ groupName' = groupName
                  /\ editName' = groupName
                  /\ ~isEditing'
            /\ lastCall' # NoCall =>
                  /\ lastCall' = RenameCall(TrimName(editName))
                  /\ TrimName(editName) # <<>>
                  /\ TrimName(editName) # groupName
      ]_vars

\* C9: the window listeners are attached exactly while the mounted
\* component is dragging; a drag starts only at a header mousedown that is
\* not on a button or input, and such a mousedown on a button or input
\* changes nothing of the drag; moveGroupNodes is called only by a mousemove
\* during a drag; every mouseup leaves isDragging false, the anchor null and
\* the listeners detached, and a mousemove outside a drag calls nothing.
C9_DragLifetime ==
    [][ /\ listeners' = (mounted' /\ isDragging')
        /\ isDragging' = (dragStart' # NoAnchor)
        /\ lastCall'.op = "moveGroupNodes" =>
              isDragging /\ isDragging' /\ lastEvent'.type = "mousemove"
        /\ (~isDragging /\ isDragging') =>
              /\ lastEvent'.type = "mousedown"
              /\ lastEvent'.target \notin ButtonOrInput
        /\ (lastEvent'.type = "mousedown"
               /\ lastEvent'.target \in ButtonOrInput) =>
              UNCHANGED <<isDragging, dragStart, listeners>>
        /\ lastEvent'.type = "mouseup" =>
              ~isDragging' /\ dragStart' = NoAnchor /\ ~listeners'
        /\ (~isDragging /\ lastEvent'.type = "mousemove") =>
              lastCall' = NoCall
      ]_vars

\* C9 witness: a drag that committed a move has been ended by mouseup, and
\* the mousedown that came next landed on a button and started nothing.
C9_Witness ==
    /\ lastEvent.type = "mousedown"
    /\ lastEvent.target = "deleteButton"
    /\ ~isDragging
    /\ ~listeners
    /\ dragStart = NoAnchor
    /\ moved # <<0, 0>>

====
